---- MODULE Spec2Model ----
(***************************************************************************)
(* Model of src/navigator/SourceWidget.cc: the line layout cursor          *)
(* (LineLayout), the coordinate mapping of SourceWidgetView (hitTest,      *)
(* locationToPoint), the word boundary resolver (findWordAtLocation), the  *)
(* color overlay built by setFile, and the selection driven by the mouse   *)
(* handlers.                                                               *)
(*                                                                         *)
(* Code units are UTF-16 code units, written as their numbers.  Lines and  *)
(* columns are 0-based as in the source; TLA+ sequences are 1-based, so    *)
(* the unit at index i of a string s is s[i + 1].                          *)
(***************************************************************************)
EXTENDS Integers, Sequences, FiniteSets, TLC

VARIABLES
    m_file,             \* SourceWidgetView::m_file (NULL or a File)
    m_selection,        \* SourceWidgetView::m_selection
    m_syntaxColoring,   \* SourceWidgetView::m_syntaxColoring
    m_maxLineLength,    \* SourceWidgetView::m_maxLineLength
    index,              \* the project's index: the refs it holds, the lexer's kinds
    ui,                 \* the last event handled and what it asked of the window
    lay,                \* a LineLayout object being driven by a caller
    layHist,            \* what the last step on lay read, and what came before
    mls,                \* the loop state of measureLineLength
    call,               \* the last call of a mapping function and its result
    click               \* what the pointer has done since the last press

vars == <<m_file, m_selection, m_syntaxColoring, m_maxLineLength, index, ui,
          lay, layHist, mls, call, click>>

viewVars == <<m_file, m_selection, m_syntaxColoring, m_maxLineLength, index, ui>>

-----------------------------------------------------------------------------
(* Bounds of the model and constants of the program.                       *)

\* Longest line (in code units) of the files the mapping functions are tried on.
MaxLineLen == 3

\* Pixel width of ' ' in the widget's font (m_fm.width(QChar(' '))).
SpaceWidth == 2

\* effectiveLineSpacing(fontMetrics()) of the widget's font, in pixels.
LineSpacing == 3

\* Most semantic references the index enumerates for one file.
MaxRefs == 2

kTabStopSize == 8

\* QMargins(4, 4, 4, 4) of the SourceWidgetView.
MarginLeft == 4

MarginTop == 4

\* '\t'
TabUnit == 9

\* '\n', which separates the lines of a file's content.
NewlineUnit == 10

\* The code units lines are built from: tab, ';', 'a', ZERO WIDTH SPACE
\* (U+200B), a high surrogate (U+D83D) and a low surrogate (U+DE00).
Alphabet == {TabUnit, 59, 97, 8203, 55357, 56832}

-----------------------------------------------------------------------------
(* QChar                                                                   *)

isHighSurrogate(u) == u >= 55296 /\ u <= 56319

isLowSurrogate(u) == u >= 56320 /\ u <= 57343

\* isalnum in the C locale, for u <= 127.
isalnum(u) == \/ (u >= 48 /\ u <= 57)
              \/ (u >= 65 /\ u <= 90)
              \/ (u >= 97 /\ u <= 122)

isIdentifierChar(u) == u <= 127 /\ (isalnum(u) \/ u = 95)

-----------------------------------------------------------------------------
(* The File collaborator: a file is its lines; its content is the lines    *)
(* joined by '\n'.  NULL is the absent file.                               *)

NULL == [null |-> TRUE, lines |-> <<>>]

File(ls) == [null |-> FALSE, lines |-> ls]

lineCount(f) == Len(f.lines)

lineLength(f, line) == Len(f.lines[line + 1])

RECURSIVE lineStart(_, _)
lineStart(f, line) ==
    IF line = 0 THEN 0
    ELSE lineStart(f, line - 1) + lineLength(f, line - 1) + 1

RECURSIVE Join(_)
Join(ls) ==
    IF ls = <<>> THEN <<>>
    ELSE IF Len(ls) = 1 THEN ls[1]
    ELSE ls[1] \o <<NewlineUnit>> \o Join(Tail(ls))

content(f) == Join(f.lines)

\* A QStringRef: a window of `size` units at `position` of `string`.
lineContent(f, line) ==
    [string |-> content(f), position |-> lineStart(f, line),
     size |-> lineLength(f, line)]

\* QStringRef::at.  Inside the window it is the window's unit.  Outside it
\* (the precondition i < size() broken) a release build reads the
\* underlying string's storage: the next unit of the file's content, or the
\* terminating 0 at its end.
RefAt(ref, i) ==
    IF ref.position + i < Len(ref.string)
    THEN ref.string[ref.position + i + 1]
    ELSE 0

-----------------------------------------------------------------------------
(* The glyph metrics service (TextWidthCalculator): the width of a run of  *)
(* one or two code units.  A high surrogate followed by a low one is one   *)
(* glyph, two cells wide; ZERO WIDTH SPACE and control units draw nothing; *)
(* every other unit, a lone surrogate included, is one cell.               *)

GlyphWidth(u) ==
    IF u = 8203 \/ u < 32 THEN 0 ELSE SpaceWidth

calculate(text) ==
    IF Len(text) = 0 THEN 0
    ELSE IF Len(text) = 1 THEN GlyphWidth(text[1])
    ELSE IF isHighSurrogate(text[1]) /\ isLowSurrogate(text[2])
         THEN 2 * SpaceWidth
         ELSE GlyphWidth(text[1]) + GlyphWidth(text[2])

-----------------------------------------------------------------------------
(* class LineLayout                                                        *)

lineTopOf(line) == LineSpacing * line + MarginTop

LineLayout(f, line) ==
    [lineContent    |-> lineContent(f, line),
     lineHeight     |-> LineSpacing,
     lineTop        |-> MarginTop + line * LineSpacing,
     lineLeftMargin |-> MarginLeft,
     lineStartIndex |-> lineStart(f, line),
     tabStopPx      |-> SpaceWidth * kTabStopSize,
     charIndex      |-> -1,
     charIsSurrogatePair |-> FALSE,
     charLeft       |-> 0,
     charWidth      |-> 0,
     charText       |-> <<>>]

\* nextCharIndex that steps one unit whatever the character was.
nextCharIndexOneUnit(l) == l.charIndex + 1

nextCharIndex(l) == l.charIndex + 1 + (IF l.charIsSurrogatePair THEN 1 ELSE 0)

hasMoreChars(l) == nextCharIndex(l) < l.lineContent.size

\* C++ int division truncates toward zero.
TruncDiv(a, b) == IF a >= 0 THEN a \div b ELSE -((-a) \div b)

\* tabWidth that rounds up to a tab stop at or after charLeft: a tab that
\* starts on a tab stop gets no width.
tabWidthToStopAtOrAfter(charLeft, tabStopPx) ==
    (TruncDiv(charLeft + tabStopPx - 1, tabStopPx) * tabStopPx) - charLeft

tabWidth(charLeft, tabStopPx) ==
    (TruncDiv(charLeft + tabStopPx, tabStopPx) * tabStopPx) - charLeft

advanceChar(l) ==
    LET idx  == nextCharIndex(l)
        left == l.charLeft + l.charWidth
        ch   == RefAt(l.lineContent, idx)
    IN  IF ~isHighSurrogate(ch)
        THEN IF ch = TabUnit
             THEN [l EXCEPT !.charIndex = idx, !.charLeft = left,
                            !.charIsSurrogatePair = FALSE,
                            !.charText = <<>>,
                            !.charWidth = tabWidth(left, l.tabStopPx)]
             ELSE [l EXCEPT !.charIndex = idx, !.charLeft = left,
                            !.charIsSurrogatePair = FALSE,
                            !.charText = <<ch>>,
                            !.charWidth = calculate(<<ch>>)]
        ELSE [l EXCEPT !.charIndex = idx, !.charLeft = left,
                       !.charIsSurrogatePair = TRUE,
                       !.charText = <<ch, RefAt(l.lineContent, idx + 1)>>,
                       !.charWidth =
                           calculate(<<ch, RefAt(l.lineContent, idx + 1)>>)]

\* The indices of m_lineContent that advanceChar passes to at().
advanceCharReads(l) ==
    LET idx == nextCharIndex(l)
    IN  IF isHighSurrogate(RefAt(l.lineContent, idx))
        THEN {idx, idx + 1}
        ELSE {idx}

charColumn(l) == l.charIndex

charFileIndex(l) == l.lineStartIndex + l.charIndex

\* charLeft without the left margin.
charLeftNoMargin(l) == l.charLeft

charLeft(l) == l.lineLeftMargin + l.charLeft

charWidth(l) == l.charWidth

charText(l) == l.charText

-----------------------------------------------------------------------------
(* measureLineLength                                                       *)

\* One iteration of the loop: the visual column after the unit ch.
measureStep(pos, ch, tabStopSize) ==
    IF ch = TabUnit
    THEN TruncDiv(pos + tabStopSize, tabStopSize) * tabStopSize
    ELSE pos + 1

RECURSIVE measureLoop(_, _, _, _, _)
measureLoop(data, i, end, pos, tabStopSize) ==
    IF i < end
    THEN measureLoop(data, i + 1, end,
                     measureStep(pos, data[i + 1], tabStopSize), tabStopSize)
    ELSE pos

measureLineLength(data, start, size, tabStopSize) ==
    measureLoop(data, start, start + size, 0, tabStopSize)

-----------------------------------------------------------------------------
(* FileLocation and FileRange (File.h)                                     *)

FileLocation(line, column) == [line |-> line, column |-> column]

NullLocation == FileLocation(-1, -1)

isNull(loc) == loc.line = -1

doesPointAtChar(loc, f) ==
    /\ ~isNull(loc)
    /\ loc.line >= 0 /\ loc.line < lineCount(f)
    /\ loc.column >= 0 /\ loc.column < lineLength(f, loc.line)

FileRange(start, end) == [start |-> start, end |-> end]

EmptyRange == FileRange(NullLocation, NullLocation)

isEmpty(r) == r.start = r.end

QPoint(x, y) == [x |-> x, y |-> y]

-----------------------------------------------------------------------------
(* SourceWidgetView: the coordinate mapping                                *)

\* hitTest's loop with <= for <: a character also takes its right edge.
RECURSIVE hitTestLoopInclusive(_, _, _, _)
hitTestLoopInclusive(l, pixel, f, line) ==
    IF hasMoreChars(l)
    THEN LET n == advanceChar(l)
         IN  IF pixel.x <= charLeft(n) + charWidth(n)
             THEN FileLocation(line, charColumn(n))
             ELSE hitTestLoopInclusive(n, pixel, f, line)
    ELSE FileLocation(line, lineLength(f, line))

RECURSIVE hitTestLoop(_, _, _, _)
hitTestLoop(l, pixel, f, line) ==
    IF hasMoreChars(l)
    THEN LET n == advanceChar(l)
         IN  IF pixel.x < charLeft(n) + charWidth(n)
             THEN FileLocation(line, charColumn(n))
             ELSE hitTestLoop(n, pixel, f, line)
    ELSE FileLocation(line, lineLength(f, line))

hitTest(f, pixel) ==
    IF f = NULL THEN NullLocation
    ELSE LET line == TruncDiv(pixel.y - MarginTop, LineSpacing)
         IN  IF line < 0 THEN FileLocation(0, 0)
             ELSE IF line >= lineCount(f) THEN FileLocation(lineCount(f), 0)
             ELSE hitTestLoop(LineLayout(f, line), pixel, f, line)

RECURSIVE locationToPointLoop(_, _)
locationToPointLoop(l, loc) ==
    IF hasMoreChars(l)
    THEN LET n == advanceChar(l)
         IN  IF charColumn(n) = loc.column
             THEN QPoint(charLeft(n), lineTopOf(loc.line))
             ELSE locationToPointLoop(n, loc)
    ELSE QPoint(charLeft(l) + charWidth(l), lineTopOf(loc.line))

locationToPoint(f, loc) ==
    IF f = NULL \/ isNull(loc) THEN QPoint(MarginLeft, MarginTop)
    ELSE IF loc.line >= lineCount(f)
         THEN QPoint(MarginLeft, lineTopOf(lineCount(f)))
         ELSE locationToPointLoop(LineLayout(f, loc.line), loc)

-----------------------------------------------------------------------------
(* SourceWidgetView: the word boundary resolver                            *)

\* wordLeft with x1 - 1 > 0: the word never reaches column 0.
RECURSIVE wordLeftStopsAtOne(_, _)
wordLeftStopsAtOne(ref, x1) ==
    IF x1 - 1 > 0 /\ isIdentifierChar(RefAt(ref, x1 - 1))
    THEN wordLeftStopsAtOne(ref, x1 - 1)
    ELSE x1

RECURSIVE wordLeft(_, _)
wordLeft(ref, x1) ==
    IF x1 - 1 >= 0 /\ isIdentifierChar(RefAt(ref, x1 - 1))
    THEN wordLeft(ref, x1 - 1)
    ELSE x1

RECURSIVE wordRight(_, _)
wordRight(ref, x2) ==
    IF x2 + 1 < ref.size /\ isIdentifierChar(RefAt(ref, x2 + 1))
    THEN wordRight(ref, x2 + 1)
    ELSE x2

findWordAtLocation(f, pt) ==
    IF f = NULL \/ ~doesPointAtChar(pt, f) THEN EmptyRange
    ELSE LET ref == lineContent(f, pt.line)
         IN  IF ~isIdentifierChar(RefAt(ref, pt.column))
             THEN FileRange(pt, FileLocation(pt.line, pt.column + 1))
             ELSE FileRange(FileLocation(pt.line, wordLeft(ref, pt.column)),
                            FileLocation(pt.line, wordRight(ref, pt.column) + 1))

findWordAtPoint(f, pt) ==
    IF f # NULL
    THEN LET loc == hitTest(f, pt)
         IN  IF doesPointAtChar(loc, f) THEN findWordAtLocation(f, loc)
             ELSE EmptyRange
    ELSE EmptyRange

-----------------------------------------------------------------------------
(* SourceWidgetView::setFile: the color overlay                            *)

colorForSyntaxKind(kind) ==
    CASE kind \in {"KindComment", "KindQuoted"} -> "darkGreen"
      [] kind \in {"KindNumber", "KindDirective"} -> "darkBlue"
      [] kind = "KindKeyword" -> "darkYellow"
      [] OTHER -> "black"

\* ColorForRef::color, on the symbol type of the ref's symbol.
colorOfRef(ref) ==
    CASE ref.symbolType = "GlobalVariable" -> "darkCyan"
      [] ref.symbolType = "Field" -> "darkRed"
      [] ref.symbolType \in {"Namespace", "Struct", "Class", "Union",
                             "Enum", "Typedef"} -> "darkMagenta"
      [] OTHER -> "transparent"

\* colorRef that leaves what the lexer colored: only black is overwritten.
colorRefOnlyOverBlack(coloring, f, ref) ==
    LET offset == lineStart(f, ref.line - 1)
        color  == colorOfRef(ref)
    IN  IF color # "transparent"
        THEN [k \in DOMAIN coloring |->
                 IF /\ k - 1 >= offset + ref.column - 1
                    /\ k - 1 < offset + ref.endColumn - 1
                    /\ coloring[k] = "black"
                 THEN color ELSE coloring[k]]
        ELSE coloring

\* The body of the lambda given to queryFileRefs, for one ref.
colorRef(coloring, f, ref) ==
    LET offset == lineStart(f, ref.line - 1)
        color  == colorOfRef(ref)
    IN  IF color # "transparent"
        THEN [k \in DOMAIN coloring |->
                 IF /\ k - 1 >= offset + ref.column - 1
                    /\ k - 1 < offset + ref.endColumn - 1
                 THEN color ELSE coloring[k]]
        ELSE coloring

RECURSIVE colorRefs(_, _, _)
colorRefs(coloring, f, refs) ==
    IF refs = <<>> THEN coloring
    ELSE colorRefs(colorRef(coloring, f, Head(refs)), f, Tail(refs))

\* The coloring setFile builds for a non-null file, from the lexer's kinds
\* and the refs the index enumerates, in their order.
syntaxColoringOf(f, kinds, refs) ==
    colorRefs([k \in 1..Len(content(f)) |-> colorForSyntaxKind(kinds[k])],
              f, refs)

RECURSIVE maxLengthLoop(_, _, _)
maxLengthLoop(f, i, maxLength) ==
    IF i < lineCount(f)
    THEN LET n == measureLineLength(content(f), lineStart(f, i),
                                    lineLength(f, i), kTabStopSize)
         IN  maxLengthLoop(f, i + 1, IF n > maxLength THEN n ELSE maxLength)
    ELSE maxLength

\* asked: whether querySymbolsAtLocation was called; symbols: its answer.
NoEvent == [event |-> "none", nav |-> "none", menu |-> "none",
            asked |-> FALSE, symbols |-> <<>>]

\* setFile without m_selection = FileRange().
setFileKeepingSelection(f, kinds, refs) ==
    /\ m_file' = f
    /\ m_selection' = m_selection
    /\ IF f # NULL
       THEN /\ m_syntaxColoring' = syntaxColoringOf(f, kinds, refs)
            /\ m_maxLineLength' = maxLengthLoop(f, 0, 0)
       ELSE /\ m_syntaxColoring' = m_syntaxColoring
            /\ m_maxLineLength' = 0
    /\ ui' = [NoEvent EXCEPT !.event = "setFile"]
    /\ UNCHANGED index

\* SourceWidgetView::setFile.  kinds is what CXXSyntaxHighlighter::highlight
\* answers for the content and refs what queryFileRefs enumerates.
setFile(f, kinds, refs) ==
    /\ m_file' = f
    /\ m_selection' = EmptyRange
    /\ IF f # NULL
       THEN /\ m_syntaxColoring' = syntaxColoringOf(f, kinds, refs)
            /\ m_maxLineLength' = maxLengthLoop(f, 0, 0)
       ELSE /\ m_syntaxColoring' = m_syntaxColoring
            /\ m_maxLineLength' = 0
    /\ ui' = [NoEvent EXCEPT !.event = "setFile"]
    /\ UNCHANGED index

-----------------------------------------------------------------------------
(* SourceWidgetView: the mouse handlers, and SourceWidget::selectIdentifier *)

mousePressEvent(pos) ==
    /\ m_selection' = findWordAtPoint(m_file, pos)
    /\ ui' = [NoEvent EXCEPT !.event = "press"]
    /\ UNCHANGED <<m_file, m_syntaxColoring, m_maxLineLength, index>>

\* mouseMoveEvent that selects whatever word the pointer is over.
mouseMoveEventFollowsPointer(pos) ==
    /\ m_selection' = findWordAtPoint(m_file, pos)
    /\ ui' = [NoEvent EXCEPT !.event = "move"]
    /\ UNCHANGED <<m_file, m_syntaxColoring, m_maxLineLength, index>>

mouseMoveEvent(pos) ==
    /\ m_selection' = IF m_selection # findWordAtPoint(m_file, pos)
                      THEN EmptyRange ELSE m_selection
    /\ ui' = [NoEvent EXCEPT !.event = "move"]
    /\ UNCHANGED <<m_file, m_syntaxColoring, m_maxLineLength, index>>

\* mouseReleaseEvent that navigates to the first symbol whenever there is one.
mouseReleaseEventFirstSymbol(pos, symbols) ==
    /\ IF ~isEmpty(m_selection)
       THEN LET identifierClicked ==
                    IF m_selection = findWordAtPoint(m_file, pos)
                    THEN m_selection ELSE EmptyRange
                asked == ~isEmpty(identifierClicked)
            IN  /\ m_selection' = EmptyRange
                /\ ui' = [event |-> "release",
                          nav |-> IF asked /\ Len(symbols) >= 1
                                  THEN symbols[1] ELSE "none",
                          menu |-> "none",
                          asked |-> asked,
                          symbols |-> IF asked THEN symbols ELSE <<>>]
       ELSE /\ m_selection' = m_selection
            /\ ui' = [NoEvent EXCEPT !.event = "release"]
    /\ UNCHANGED <<m_file, m_syntaxColoring, m_maxLineLength, index>>

\* symbols is what querySymbolsAtLocation answers when it is asked.  nav is
\* the symbol whose definition navigateToRef is given, if it is called.
mouseReleaseEvent(pos, symbols) ==
    /\ IF ~isEmpty(m_selection)
       THEN LET identifierClicked ==
                    IF m_selection = findWordAtPoint(m_file, pos)
                    THEN m_selection ELSE EmptyRange
                asked == ~isEmpty(identifierClicked)
            IN  /\ m_selection' = EmptyRange
                /\ ui' = [event |-> "release",
                          nav |-> IF asked /\ Len(symbols) = 1
                                  THEN symbols[1] ELSE "none",
                          menu |-> "none",
                          asked |-> asked,
                          symbols |-> IF asked THEN symbols ELSE <<>>]
       ELSE /\ m_selection' = m_selection
            /\ ui' = [NoEvent EXCEPT !.event = "release"]
    /\ UNCHANGED <<m_file, m_syntaxColoring, m_maxLineLength, index>>

\* menu: "navigation" is the Back/Forward menu, "noSymbols" the menu whose
\* one entry is "No symbols found", "symbols" the menu that lists every
\* symbol of the answer with its "Cross-references..." action.
contextMenuEvent(pos, symbols) ==
    LET sel == IF /\ ~isEmpty(m_selection)
                  /\ m_selection # findWordAtPoint(m_file, pos)
               THEN EmptyRange ELSE m_selection
    IN  /\ m_selection' = sel
        /\ ui' = [event |-> "contextMenu",
                  nav |-> "none",
                  menu |-> IF isEmpty(sel) THEN "navigation"
                           ELSE IF symbols = <<>> THEN "noSymbols"
                           ELSE "symbols",
                  asked |-> ~isEmpty(sel),
                  symbols |-> IF ~isEmpty(sel) THEN symbols ELSE <<>>]
        /\ UNCHANGED <<m_file, m_syntaxColoring, m_maxLineLength, index>>

\* line and column are 1-based.
selectIdentifier(line, column) ==
    /\ m_selection' = findWordAtLocation(m_file, FileLocation(line - 1, column - 1))
    /\ ui' = [NoEvent EXCEPT !.event = "selectIdentifier"]
    /\ UNCHANGED <<m_file, m_syntaxColoring, m_maxLineLength, index>>

-----------------------------------------------------------------------------
(* The inputs the events are tried with.                                   *)

RECURSIVE SeqsUpTo(_, _)
SeqsUpTo(S, n) ==
    IF n = 0 THEN {<<>>}
    ELSE LET shorter == SeqsUpTo(S, n - 1)
         IN  shorter \cup {Append(q, e) : q \in {t \in shorter : Len(t) = n - 1},
                                          e \in S}

\* The x just past the last character of a line.
lineEndX(f, line) == locationToPoint(f, FileLocation(line, lineLength(f, line))).x

maxEndX(f) ==
    IF f = NULL \/ lineCount(f) = 0 THEN MarginLeft
    ELSE LET xs == {lineEndX(f, line) : line \in 0..(lineCount(f) - 1)}
         IN  CHOOSE x \in xs : \A y \in xs : y <= x

\* Every pixel from left of the margin to right of the longest line, and
\* from more than a line above the first line to below the last.
PixelsOf(f) ==
    {QPoint(x, y) : x \in (MarginLeft - 2)..(maxEndX(f) + 1),
                    y \in (MarginTop - LineSpacing - 1)..
                          (lineTopOf(IF f = NULL THEN 0 ELSE lineCount(f)) + 1)}

\* Locations on and around the file: the null location, every line up to
\* one past the last, every column up to one past the longest line.
LocationsOf(f) ==
    LET lens == {0} \cup {Len(f.lines[k]) : k \in DOMAIN f.lines}
        longest == CHOOSE n \in lens : \A m \in lens : m <= n
    IN  {NullLocation} \cup
        {FileLocation(line, column) :
            line \in 0..(lineCount(f) + 1), column \in 0..(longest + 1)}

KindNames == <<"KindComment", "KindNumber", "KindKeyword", "KindDefault",
               "KindQuoted", "KindDirective">>

\* The lexer's answer, by content offset: the kinds in rotation from `shift`.
KindsOf(f, shift) ==
    [k \in 1..Len(content(f)) |-> KindNames[((k + shift) % Len(KindNames)) + 1]]

KindShifts == {0, 2}

\* CXXSyntaxHighlighter::highlight(content) under the index's lexer.
highlight(f) == KindsOf(f, index.shift)

\* Project::queryFileRefs: the refs of f, in the order they are enumerated.
queryFileRefs(f) == IF f = index.file THEN index.refs ELSE <<>>

SymbolTypes == {"Field", "Class", "Function"}

\* The refs an index can hold for f: 1-based, each a non-empty span within
\* one line of f.
RefsOf(f) ==
    UNION {{[line |-> line, column |-> column, endColumn |-> endColumn,
             symbolType |-> t] :
               column \in 1..lineLength(f, line - 1),
               endColumn \in 2..(lineLength(f, line - 1) + 1),
               t \in SymbolTypes} : line \in 1..lineCount(f)}

WellFormedRefs(f) == {r \in RefsOf(f) : r.column < r.endColumn}

\* The indexes the widget is tried under: one file's refs, and the lexer.
IndexesOf(files, maxRefs) ==
    UNION {[file : {f}, shift : KindShifts,
            refs : SeqsUpTo(WellFormedRefs(f), maxRefs)] : f \in files}

SymbolLists == {<<>>, <<"S1">>, <<"S1", "S2">>}

\* The files the widget is shown: an identifier, a separator and a tab on
\* two lines; a surrogate pair between identifiers; and the empty file.
ViewFiles ==
    {File(<<<<97, 97, 59>>, <<TabUnit, 97>>>>),
     File(<<<<97, 55357, 56832>>>>),
     File(<<>>)}

\* The indexes the events are tried under: at most one ref, of a field,
\* starting a line.
ViewIndexes ==
    {i \in IndexesOf(ViewFiles, 1) :
        /\ i.shift = 0
        /\ \A k \in DOMAIN i.refs :
               i.refs[k].symbolType = "Field" /\ i.refs[k].column = 1}

\* The files the mapping functions and the layout cursor are tried on: every
\* line over the alphabet, alone, and after a first line.
\* "int foo_bar;"
ExampleLine == <<105, 110, 116, 32, 102, 111, 111, 95, 98, 97, 114, 59>>

MapFiles ==
    LET Lines == SeqsUpTo(Alphabet, MaxLineLen)
    IN  {File(<<l>>) : l \in Lines} \cup {File(<<<<59>>, l>>) : l \in Lines}
        \cup {File(<<>>), File(<<ExampleLine>>)}

-----------------------------------------------------------------------------
(* The widget under its events.                                            *)

NoLayout == [charIndex |-> -1]

NoLayHist == [op |-> "none", line |-> 0, reads |-> {}, passed |-> <<>>]

NoMeasure == [op |-> "none"]

NoCall == [op |-> "none"]

\* Before any press: nothing was selected by one.
NoClick == [pressed |-> EmptyRange, steady |-> TRUE, moved |-> FALSE,
            before |-> EmptyRange, under |-> EmptyRange]

Init ==
    /\ m_file = NULL
    /\ m_selection = EmptyRange
    /\ m_syntaxColoring = <<>>
    /\ m_maxLineLength = 0
    /\ index \in ViewIndexes
    /\ ui = NoEvent
    /\ lay = NoLayout
    /\ layHist = NoLayHist
    /\ mls = NoMeasure
    /\ call = NoCall
    /\ click = NoClick

\* SourceWidget::setFile: only a change of file reaches the view.
SetFile ==
    \E f \in ViewFiles \cup {NULL} :
        /\ f # m_file
        /\ IF f = NULL
           THEN setFile(f, <<>>, <<>>)
           ELSE setFile(f, highlight(f), queryFileRefs(f))
        /\ UNCHANGED <<lay, layHist, mls, call, click>>

MousePress ==
    \E pos \in PixelsOf(m_file) :
        mousePressEvent(pos) /\ UNCHANGED <<lay, layHist, mls, call, click>>

MouseMove ==
    \E pos \in PixelsOf(m_file) :
        mouseMoveEvent(pos) /\ UNCHANGED <<lay, layHist, mls, call, click>>

MouseRelease ==
    \E pos \in PixelsOf(m_file), symbols \in SymbolLists :
        mouseReleaseEvent(pos, symbols) /\ UNCHANGED <<lay, layHist, mls, call, click>>

ContextMenu ==
    \E pos \in PixelsOf(m_file), symbols \in SymbolLists :
        contextMenuEvent(pos, symbols) /\ UNCHANGED <<lay, layHist, mls, call, click>>

SelectIdentifier ==
    \E loc \in LocationsOf(m_file) :
        /\ selectIdentifier(loc.line + 1, loc.column + 1)
        /\ UNCHANGED <<lay, layHist, mls, call, click>>

Next ==
    \/ SetFile
    \/ MousePress
    \/ MouseMove
    \/ MouseRelease
    \/ ContextMenu
    \/ SelectIdentifier

Spec == Init /\ [][Next]_vars

-----------------------------------------------------------------------------
(* The color overlay: setFile under every index.                           *)

ColorInit ==
    /\ m_file = NULL
    /\ m_selection = EmptyRange
    /\ m_syntaxColoring = <<>>
    /\ m_maxLineLength = 0
    /\ index \in IndexesOf(ViewFiles, MaxRefs)
    /\ ui = NoEvent
    /\ lay = NoLayout
    /\ layHist = NoLayHist
    /\ mls = NoMeasure
    /\ call = NoCall
    /\ click = NoClick

ColorNext == SetFile

SpecColor == ColorInit /\ [][ColorNext]_vars

-----------------------------------------------------------------------------
(* The mapping functions, each applied to an input drawn at the start.     *)

\* The widget after setFile(f) under an index without refs.
Shown(f) ==
    /\ m_file = f
    /\ m_selection = EmptyRange
    /\ index = [file |-> NULL, shift |-> 0, refs |-> <<>>]
    /\ m_syntaxColoring = syntaxColoringOf(f, KindsOf(f, 0), <<>>)
    /\ m_maxLineLength = maxLengthLoop(f, 0, 0)
    /\ ui = [NoEvent EXCEPT !.event = "setFile"]

MapInit ==
    /\ \E f \in MapFiles :
          /\ Shown(f)
          /\ call \in {[op |-> "none", kind |-> "pixel", pixel |-> p] :
                          p \in PixelsOf(f)}
                      \cup {[op |-> "none", kind |-> "location", loc |-> l] :
                          l \in LocationsOf(f)}
    /\ lay = NoLayout
    /\ layHist = NoLayHist
    /\ mls = NoMeasure
    /\ click = NoClick

CallHitTest ==
    /\ call.op = "none" /\ call.kind = "pixel"
    /\ call' = [op |-> "hitTest", pixel |-> call.pixel,
                loc |-> hitTest(m_file, call.pixel)]
    /\ UNCHANGED <<click, viewVars, lay, layHist, mls>>

\* locationToPoint, hitTest of that point, and locationToPoint of the hit.
CallRoundTrip ==
    /\ call.op = "none" /\ call.kind = "location"
    /\ LET point == locationToPoint(m_file, call.loc)
           hit   == hitTest(m_file, point)
       IN  call' = [op |-> "roundTrip", loc |-> call.loc, point |-> point,
                    hit |-> hit, back |-> locationToPoint(m_file, hit)]
    /\ UNCHANGED <<click, viewVars, lay, layHist, mls>>

CallFindWord ==
    /\ call.op = "none" /\ call.kind = "location"
    /\ call' = [op |-> "findWordAtLocation", loc |-> call.loc,
                range |-> findWordAtLocation(m_file, call.loc)]
    /\ UNCHANGED <<click, viewVars, lay, layHist, mls>>

MapNext ==
    \/ CallHitTest
    \/ CallRoundTrip
    \/ CallFindWord

SpecMap == MapInit /\ [][MapNext]_vars

-----------------------------------------------------------------------------
(* A LineLayout driven as its callers drive it (hasMoreChars, then         *)
(* advanceChar), and the loop of measureLineLength, step by step.          *)

LayoutInit ==
    /\ \E f \in MapFiles : Shown(f)
    /\ lay = NoLayout
    /\ layHist = NoLayHist
    /\ mls = NoMeasure
    /\ call = NoCall
    /\ click = NoClick

Construct ==
    /\ layHist.op = "none"
    /\ \E line \in 0..(lineCount(m_file) - 1) :
          /\ lay' = LineLayout(m_file, line)
          /\ layHist' = [op |-> "construct", line |-> line, reads |-> {},
                         passed |-> <<>>]
    /\ UNCHANGED <<click, viewVars, mls, call>>

\* passed: for each character the cursor has left behind, whether it was
\* taken as a surrogate pair.
AdvanceChar ==
    /\ layHist.op # "none"
    /\ hasMoreChars(lay)
    /\ lay' = advanceChar(lay)
    /\ layHist' = [op |-> "advance",
                   line |-> layHist.line,
                   reads |-> advanceCharReads(lay),
                   passed |-> IF lay.charIndex >= 0
                              THEN Append(layHist.passed, lay.charIsSurrogatePair)
                              ELSE layHist.passed]
    /\ UNCHANGED <<click, viewVars, mls, call>>

MeasureBegin ==
    /\ mls.op = "none"
    /\ \E line \in 0..(lineCount(m_file) - 1) :
          mls' = [op |-> "begin", data |-> content(m_file),
                  start |-> lineStart(m_file, line),
                  size |-> lineLength(m_file, line),
                  i |-> lineStart(m_file, line), pos |-> 0]
    /\ UNCHANGED <<click, viewVars, lay, layHist, call>>

\* before and unit: the column before this iteration and the unit it saw.
MeasureStep ==
    /\ mls.op # "none"
    /\ mls.i < mls.start + mls.size
    /\ mls' = [op |-> "step", data |-> mls.data, start |-> mls.start,
               size |-> mls.size, i |-> mls.i + 1,
               pos |-> measureStep(mls.pos, mls.data[mls.i + 1], kTabStopSize),
               before |-> mls.pos, unit |-> mls.data[mls.i + 1]]
    /\ UNCHANGED <<click, viewVars, lay, layHist, call>>

LayoutNext ==
    \/ Construct
    \/ AdvanceChar
    \/ MeasureBegin
    \/ MeasureStep

SpecLayout == LayoutInit /\ [][LayoutNext]_vars

-----------------------------------------------------------------------------
(* Press, move and release on a file that stays shown.  click keeps what   *)
(* the handlers do not: the range the most recent press selected, whether  *)
(* every move since was over that range, whether there was one, the        *)
(* selection before the last event and the word range under its point.     *)

ClickInit ==
    /\ \E f \in ViewFiles : Shown(f)
    /\ lay = NoLayout
    /\ layHist = NoLayHist
    /\ mls = NoMeasure
    /\ call = NoCall
    /\ click = NoClick

ClickPress ==
    \E pos \in PixelsOf(m_file) :
        /\ mousePressEvent(pos)
        /\ click' = [pressed |-> m_selection', steady |-> TRUE, moved |-> FALSE,
                     before |-> m_selection,
                     under |-> findWordAtPoint(m_file, pos)]
        /\ UNCHANGED <<lay, layHist, mls, call>>

ClickMove ==
    \E pos \in PixelsOf(m_file) :
        /\ mouseMoveEvent(pos)
        /\ click' = [pressed |-> click.pressed,
                     steady |-> click.steady
                                /\ findWordAtPoint(m_file, pos) = click.pressed,
                     moved |-> TRUE,
                     before |-> m_selection,
                     under |-> findWordAtPoint(m_file, pos)]
        /\ UNCHANGED <<lay, layHist, mls, call>>

ClickRelease ==
    \E pos \in PixelsOf(m_file), symbols \in SymbolLists :
        /\ mouseReleaseEvent(pos, symbols)
        /\ click' = [click EXCEPT !.before = m_selection,
                                  !.under = findWordAtPoint(m_file, pos)]
        /\ UNCHANGED <<lay, layHist, mls, call>>

ClickNext ==
    \/ ClickPress
    \/ ClickMove
    \/ ClickRelease

SpecClick == ClickInit /\ [][ClickNext]_vars

-----------------------------------------------------------------------------
(* Properties of the mapping functions (SpecMap).                          *)

\* The characters a cursor over the line yields, in order.
RECURSIVE CursorCharsFrom(_, _)
CursorCharsFrom(l, acc) ==
    IF hasMoreChars(l)
    THEN CursorCharsFrom(advanceChar(l), Append(acc, advanceChar(l)))
    ELSE acc

CursorChars(f, line) == CursorCharsFrom(LineLayout(f, line), <<>>)

\* The pixel's y falls on an existing line of the file.
OnALine(f, pixel) ==
    pixel.y >= MarginTop /\ pixel.y < MarginTop + lineCount(f) * LineSpacing

LineOfY(y) == (y - MarginTop) \div LineSpacing

\* The indices of the characters whose span [left, left + width) holds x.
SpansHolding(cs, x) ==
    {k \in 1..Len(cs) :
        /\ cs[k].lineLeftMargin + cs[k].charLeft <= x
        /\ x < cs[k].lineLeftMargin + cs[k].charLeft + cs[k].charWidth}

FirstOf(S) == CHOOSE k \in S : \A j \in S : k <= j

\* What C1 says hitTest returns for a pixel on a line.
SpanAnswer(f, pixel) ==
    LET line == LineOfY(pixel.y)
        cs   == CursorChars(f, line)
        held == SpansHolding(cs, pixel.x)
    IN  IF held # {}
        THEN FileLocation(line, cs[FirstOf(held)].charIndex)
        ELSE FileLocation(line, lineLength(f, line))

\* C1 as claimed: for every pixel on an existing line, hitTest returns the
\* first character whose span holds pixel.x, and (line, lineLength(line)) when
\* no span holds it, left of the margin included.
C1_SpanOrEndEverywhere ==
    (call.op = "hitTest" /\ OnALine(m_file, call.pixel))
        => call.loc = SpanAnswer(m_file, call.pixel)

\* C1 amended: left of the margin hitTest returns the line's first character,
\* (line, 0), when the line has one; everywhere else on the line it returns the
\* first character whose span holds pixel.x, or (line, lineLength(line)).
C1_SpanOrEndRightOfMargin ==
    (call.op = "hitTest" /\ OnALine(m_file, call.pixel))
        => LET line == LineOfY(call.pixel.y)
           IN  IF call.pixel.x < MarginLeft /\ lineLength(m_file, line) > 0
               THEN call.loc = FileLocation(line, 0)
               ELSE call.loc = SpanAnswer(m_file, call.pixel)

\* hitTest answered for a pixel left of the margin, on a line with characters.
C1_Witness ==
    /\ call.op = "hitTest"
    /\ OnALine(m_file, call.pixel)
    /\ call.pixel.x < MarginLeft
    /\ lineLength(m_file, LineOfY(call.pixel.y)) > 1
    /\ call.loc.column = 0

\* C2: locationToPoint(hitTest(locationToPoint(loc))) = locationToPoint(loc)
\* for every location: on a character, past the end of its line, on a line
\* at or past lineCount, on the low unit of a surrogate pair, the null one.
C2_RoundTrip ==
    call.op = "roundTrip" => call.back = call.point

\* A round trip from the low unit of a surrogate pair that follows a tab.
C2_Witness ==
    /\ call.op = "roundTrip"
    /\ doesPointAtChar(call.loc, m_file)
    /\ call.loc.column >= 2
    /\ LET ln == m_file.lines[call.loc.line + 1]
       IN  /\ ln[call.loc.column - 1] = TabUnit
           /\ isHighSurrogate(ln[call.loc.column])
           /\ isLowSurrogate(ln[call.loc.column + 1])
    /\ call.back = call.point

\* C3 as claimed: a pixel above the first line (y < top margin) gives (0, 0)
\* whatever its x, a pixel below the last line gives (lineCount, 0), and any
\* other pixel gives a line in [0, lineCount).
C3_VerticalClamp ==
    call.op = "hitTest" =>
        /\ call.pixel.y < MarginTop => call.loc = FileLocation(0, 0)
        /\ call.pixel.y >= MarginTop + lineCount(m_file) * LineSpacing
               => call.loc = FileLocation(lineCount(m_file), 0)
        /\ OnALine(m_file, call.pixel)
               => call.loc.line >= 0 /\ call.loc.line < lineCount(m_file)

\* An ASCII letter, digit or underscore.
IsWordUnit(u) ==
    u \in (48..57) \cup (65..90) \cup (97..122) \cup {95}

\* C4: findWordAtLocation returns the empty range off the file's characters,
\* [location, location + 1) on a character that is no identifier character,
\* and otherwise the maximal run of identifier characters of the line that
\* holds the location.
C4_WordAtLocation ==
    call.op = "findWordAtLocation" =>
        LET loc == call.loc
            r   == call.range
            onChar == /\ loc.line >= 0 /\ loc.line < Len(m_file.lines)
                      /\ loc.column >= 0
                      /\ loc.column < Len(m_file.lines[loc.line + 1])
        IN  IF ~onChar THEN r.start = r.end
            ELSE LET ln == m_file.lines[loc.line + 1]
                 IN  IF ~IsWordUnit(ln[loc.column + 1])
                     THEN r = [start |-> loc,
                               end |-> [line |-> loc.line,
                                        column |-> loc.column + 1]]
                     ELSE /\ r.start.line = loc.line /\ r.end.line = loc.line
                          /\ r.start.column >= 0
                          /\ r.start.column <= loc.column
                          /\ loc.column < r.end.column
                          /\ r.end.column <= Len(ln)
                          /\ \A k \in r.start.column..(r.end.column - 1) :
                                 IsWordUnit(ln[k + 1])
                          /\ r.start.column > 0
                                 => ~IsWordUnit(ln[r.start.column])
                          /\ r.end.column < Len(ln)
                                 => ~IsWordUnit(ln[r.end.column + 1])

\* "int foo_bar;": column 4 gives [4, 11).
C4_Witness ==
    /\ call.op = "findWordAtLocation"
    /\ m_file = File(<<ExampleLine>>)
    /\ call.loc = FileLocation(0, 4)
    /\ call.range = FileRange(FileLocation(0, 4), FileLocation(0, 11))

\* Column c of the line ln is the high unit of a surrogate pair.
PairAt(ln, c) ==
    /\ c >= 0 /\ c + 1 < Len(ln)
    /\ isHighSurrogate(ln[c + 1]) /\ isLowSurrogate(ln[c + 2])

\* C5 as claimed: hitTest never returns the column of the low unit of a
\* surrogate pair, and for a location on either unit of a pair
\* findWordAtLocation returns a range that holds both units or neither.
C5_PairNeverSplit ==
    /\ (call.op = "hitTest" /\ doesPointAtChar(call.loc, m_file))
           => ~PairAt(m_file.lines[call.loc.line + 1], call.loc.column - 1)
    /\ (call.op = "findWordAtLocation" /\ doesPointAtChar(call.loc, m_file))
           => LET ln == m_file.lines[call.loc.line + 1]
                  r  == call.range
                  In(c) == r.start.column <= c /\ c < r.end.column
              IN  \A c \in {call.loc.column - 1, call.loc.column} :
                      PairAt(ln, c) => (In(c) <=> In(c + 1))

-----------------------------------------------------------------------------
(* Properties of the layout cursor and of measureLineLength (SpecLayout).  *)

\* The code units the characters left behind took: 2 for a pair, else 1.
RECURSIVE UnitsOf(_)
UnitsOf(passed) ==
    IF passed = <<>> THEN 0
    ELSE (IF Head(passed) THEN 2 ELSE 1) + UnitsOf(Tail(passed))

\* The line the cursor is on.
LayLine == m_file.lines[layHist.line + 1]

\* Every high surrogate of the line is followed by a low one.
WellPaired(ln) ==
    \A c \in 0..(Len(ln) - 1) : isHighSurrogate(ln[c + 1]) => PairAt(ln, c)

\* C6 as claimed (on lines without unpaired surrogates, where what a
\* character is is not in question): after each advance the column is the
\* character's ordinal in the line, a surrogate pair counting as one column,
\* and the file offset is the line's start plus the code units consumed
\* before the character.
C6_ColumnIsOrdinal ==
    (layHist.op = "advance" /\ WellPaired(LayLine)) =>
        /\ charColumn(lay) = Len(layHist.passed)
        /\ charFileIndex(lay)
               = lineStart(m_file, layHist.line) + UnitsOf(layHist.passed)

\* C6 amended: after each advance the column is the number of code units
\* consumed before the character (its code-unit index in the line), and the
\* file offset is the line's start plus that number: a surrogate pair left
\* behind advances both by 2.
C6_ColumnIsUnitIndex ==
    layHist.op = "advance" =>
        /\ charColumn(lay) = UnitsOf(layHist.passed)
        /\ charFileIndex(lay)
               = lineStart(m_file, layHist.line) + UnitsOf(layHist.passed)

\* The cursor stands on the character after a surrogate pair that began the
\* second line of a file.
C6_Witness ==
    /\ layHist.op = "advance"
    /\ layHist.line = 1
    /\ layHist.passed = <<TRUE>>
    /\ PairAt(LayLine, 0)
    /\ charColumn(lay) = 2
    /\ charFileIndex(lay) = 4

\* C7 as claimed: advanceChar reads no index outside [0, lineLength), and
\* takes a high surrogate as a pair only when a low surrogate follows it on
\* the line.
C7_UnpairedIsOneUnit ==
    layHist.op = "advance" =>
        /\ layHist.reads \subseteq 0..(Len(LayLine) - 1)
        /\ lay.charIsSurrogatePair => PairAt(LayLine, lay.charIndex)

NextStopAfter(p, stop) == CHOOSE m \in (p + 1)..(p + stop) : m % stop = 0

\* C10: a tab the cursor advances onto at left offset L is as wide as the
\* distance from L to the next multiple of 8 * spaceWidth above L (so at
\* least 1, at most a tab stop, and ending on a tab stop) and has no text;
\* measureLineLength moves to the next multiple of 8 above the column on a
\* tab and by 1 on any other unit.
C10_TabExpansion ==
    /\ (layHist.op = "advance" /\ LayLine[lay.charIndex + 1] = TabUnit)
           => LET stop == 8 * SpaceWidth
              IN  /\ lay.charWidth = NextStopAfter(lay.charLeft, stop) - lay.charLeft
                  /\ lay.charWidth >= 1 /\ lay.charWidth <= stop
                  /\ (lay.charLeft + lay.charWidth) % stop = 0
                  /\ charText(lay) = <<>>
    /\ mls.op = "step"
           => mls.pos = IF mls.unit = TabUnit
                        THEN NextStopAfter(mls.before, 8)
                        ELSE mls.before + 1

\* Tab, 'a', tab: the cursor stands on the second tab, which starts past a
\* tab stop, and measureLineLength has measured the line as 16 columns.
C10_Witness ==
    /\ m_file = File(<<<<TabUnit, 97, TabUnit>>>>)
    /\ layHist.op = "advance" /\ lay.charIndex = 2
    /\ lay.charLeft = 9 * SpaceWidth /\ lay.charWidth = 7 * SpaceWidth
    /\ mls.op = "step" /\ mls.i = 3 /\ mls.pos = 16

-----------------------------------------------------------------------------
(* Properties of the color overlay (SpecColor) and of the selection (Spec). *)

\* The refs of the index that color the content offset k of f (0-based),
\* by their place in the enumeration.
ColoringRefs(f, refs, k) ==
    {j \in DOMAIN refs :
        /\ colorOfRef(refs[j]) # "transparent"
        /\ k >= lineStart(f, refs[j].line - 1) + refs[j].column - 1
        /\ k < lineStart(f, refs[j].line - 1) + refs[j].endColumn - 1}

LastOf(S) == CHOOSE j \in S : \A i \in S : i <= j

\* C8: once setFile has shown a file, the color array has one entry per code
\* unit of its content; an offset covered by refs whose category has a color
\* has the color of the last of them enumerated, and any other offset has
\* the lexical color of its kind.
C8_ColorOverlay ==
    m_file # NULL =>
        LET refs  == queryFileRefs(m_file)
            kinds == highlight(m_file)
        IN  /\ Len(m_syntaxColoring) = Len(content(m_file))
            /\ \A k \in 0..(Len(content(m_file)) - 1) :
                   LET over == ColoringRefs(m_file, refs, k)
                   IN  m_syntaxColoring[k + 1] =
                           IF over = {}
                           THEN colorForSyntaxKind(kinds[k + 1])
                           ELSE colorOfRef(refs[LastOf(over)])

\* A keyword's offset covered by two refs of different colors and by one
\* without a color, enumerated last or first: it has the second color.
C8_Witness ==
    /\ m_file # NULL
    /\ m_file = index.file
    /\ \E k \in 0..(Len(content(m_file)) - 1) :
          /\ highlight(m_file)[k + 1] = "KindKeyword"
          /\ Cardinality(ColoringRefs(m_file, index.refs, k)) = 2
          /\ colorOfRef(index.refs[1]) = "darkMagenta"
          /\ colorOfRef(index.refs[2]) = "darkRed"
          /\ m_syntaxColoring[k + 1] = "darkRed"

\* C9: the selection is empty, or a range within one existing line of the
\* file shown with start < end; and it is empty right after every setFile.
C9_SelectionInvariant ==
    /\ \/ isEmpty(m_selection)
       \/ /\ m_file # NULL
          /\ m_selection.start.line = m_selection.end.line
          /\ m_selection.start.line >= 0
          /\ m_selection.start.line < lineCount(m_file)
          /\ m_selection.start.column >= 0
          /\ m_selection.start.column < m_selection.end.column
          /\ m_selection.end.column
                 <= lineLength(m_file, m_selection.start.line)
    /\ ui.event = "setFile" => isEmpty(m_selection)

\* A press has selected the two-character word that starts a file under
\* an index that holds a ref for it.
C9_Witness ==
    /\ ui.event = "press"
    /\ index.file = m_file /\ index.refs # <<>>
    /\ m_selection = FileRange(FileLocation(0, 0), FileLocation(0, 2))

-----------------------------------------------------------------------------
(* Properties of the click on an identifier (Spec).                        *)

\* The last event was a release on the identifier selected, for which the
\* index was asked its symbols.
Activated == ui.event = "release" /\ ui.asked

\* C11 as claimed: at a release on a selected identifier, no symbol means no
\* navigation request, one symbol means a request for that symbol, and more
\* than one means a menu is presented and no symbol is navigated to.
C11_MenuOnAmbiguousRelease ==
    Activated =>
        /\ Len(ui.symbols) = 0 => ui.nav = "none"
        /\ Len(ui.symbols) = 1 => ui.nav = ui.symbols[1]
        /\ Len(ui.symbols) > 1 => ui.menu # "none" /\ ui.nav = "none"

\* C11 amended: at a release on a selected identifier, no symbol means no
\* navigation request, one symbol means a request for that symbol, and more
\* than one means neither a request nor a menu; the menu that lists the
\* symbols is the one the context-menu event presents on a selected
\* identifier that has symbols, and it requests no navigation.
C11_NothingOnAmbiguousRelease ==
    /\ Activated =>
           /\ ui.menu = "none"
           /\ Len(ui.symbols) = 0 => ui.nav = "none"
           /\ Len(ui.symbols) = 1 => ui.nav = ui.symbols[1]
           /\ Len(ui.symbols) > 1 => ui.nav = "none"
    /\ (ui.event = "contextMenu" /\ ui.asked /\ ui.symbols # <<>>)
           => ui.menu = "symbols" /\ ui.nav = "none"

\* A release on the identifier selected, which has two symbols.
C11_Witness ==
    /\ Activated
    /\ Len(ui.symbols) = 2
    /\ ui.nav = "none"
    /\ isEmpty(m_selection)

-----------------------------------------------------------------------------
(* Properties of the click protocol (SpecClick).                           *)

====
